---- MODULE Spec2Model ----
(***************************************************************************)
(* Model of the SPSA tuner of src/tuner/spsa_tuner.py: the TunableParam    *)
(* objects, the SPSATuner session state and the steps of run()/iterate()   *)
(* with both score estimators (_run_games, _run_games_simple).             *)
(*                                                                         *)
(* Python floats are modelled in fixed point: a real x is the integer      *)
(* x * Scale, and every arithmetic operation rounds to the nearest unit,   *)
(* in the order in which the source evaluates it.                          *)
(***************************************************************************)
EXTENDS Integers, Sequences, FiniteSets, TLC

VARIABLES
    params,            \* self.params: the TunableParam objects (value is mutable)
    iterations,        \* argument of run()
    use_simple_games,  \* argument of run()/iterate()
    iteration,         \* self.iteration
    current_params,    \* self.current_params
    best_params,       \* self.best_params
    best_score,        \* self.best_score
    best_iteration,    \* self.best_iteration
    history,           \* self.history
    pc,                \* position of run(): "main", "exit", "idle", "scoring", "update",
                       \* "done", "raised", "saved"
    delta,             \* iterate(): the sign vector
    params_plus,       \* iterate(): plus candidate
    params_minus,      \* iterate(): minus candidate
    measured,          \* what the external processes did in this iteration
    wins_plus,         \* _run_games(): parsed counts
    wins_minus,
    draws,
    score_plus,        \* iterate(): the estimator's result
    score_minus,
    engine_exists,     \* main(): os.path.exists(args.engine)
    cutechess_exists,  \* whether the match runner of cutechess_path can be started
    cmd,               \* _run_games(): the game-count arguments of the command line
    artifact,          \* the JSON document written by save_results()
    twin               \* two sessions run side by side from one seed (SpecTwin)

vars == << params, iterations, use_simple_games, iteration, current_params,
           best_params, best_score, best_iteration, history, pc, delta,
           params_plus, params_minus, measured, wins_plus, wins_minus, draws,
           score_plus, score_minus, engine_exists, cutechess_exists, cmd,
           artifact, twin >>

\* What is fixed when the process starts
config == << iterations, use_simple_games, engine_exists, cutechess_exists >>

-----------------------------------------------------------------------------
(* Bounds of the model *)

MaxIterations == 3

-----------------------------------------------------------------------------
(* Fixed-point arithmetic standing for Python's float *)

Scale == 10^3

Half == Scale \div 2

Abs(x) == IF x < 0 THEN -x ELSE x

Max(a, b) == IF a >= b THEN a ELSE b

Min(a, b) == IF a <= b THEN a ELSE b

\* a / b rounded to the nearest integer, halves away from zero (b # 0)
RoundDiv(a, b) ==
    LET q == (2 * Abs(a) + Abs(b)) \div (2 * Abs(b))
    IN  IF (a < 0) # (b < 0) THEN -q ELSE q

\* x * y and x / y on fixed-point numbers
FxMul(x, y) == RoundDiv(x * y, Scale)

FxDiv(x, y) == RoundDiv(x * Scale, y)

-----------------------------------------------------------------------------
(* TunableParam *)

\* __post_init__: c_end defaults to max(1, 2% of the range), a_end to 10% of c_end
TunableParam(name, value, min_val, max_val, c_end, a_end) ==
    LET c == IF c_end = 0
             THEN Max(1 * Scale, FxMul(max_val - min_val, (2 * Scale) \div 100))
             ELSE c_end
        a == IF a_end = 0 THEN FxMul(c, Scale \div 10) ELSE a_end
    IN  [name |-> name, value |-> value, min_val |-> min_val, max_val |-> max_val,
         c_end |-> c, a_end |-> a]

\* A variant of clamp that forgets the lower bound
ClampNoLowerBound(param, val) == Min(param.max_val, val)

\* TunableParam.clamp
clamp(param, val) == Max(param.min_val, Min(param.max_val, val))

\* Two entries of DEFAULT_PARAMS
DEFAULT_PARAMS ==
    << TunableParam("PawnValueMG", 100 * Scale, 70 * Scale, 130 * Scale, 0, 0),
       TunableParam("DoubledPawnPenaltyMG", -16 * Scale, -40 * Scale, 0, 0, 0) >>

\* The parameter lists a session is constructed with: each of the two
\* DEFAULT_PARAMS entries, a degenerate range, and a pair sitting on its bounds
\* (one with explicit c_end and a_end)
ParamLists ==
    { << DEFAULT_PARAMS[1] >>,
      << DEFAULT_PARAMS[2] >>,
      << TunableParam("Fixed", 5 * Scale, 5 * Scale, 5 * Scale, 0, 0) >>,
      << TunableParam("AtMin", 0, 0, 1 * Scale, 0, 0),
         TunableParam("AtMax", 20 * Scale, 0, 20 * Scale, 5 * Scale, 2 * Scale) >> }

\* {p.name: p.value for p in params}
ValuesOf(ps) == [i \in 1..Len(ps) |-> ps[i].value]

-----------------------------------------------------------------------------
(* SPSA coefficients *)

\* a_k = 1.0 / ((A + k + 1) ** alpha), A = 10, alpha = 0.602, in units of 1/Scale
a_coeff(k) ==
    CASE k = 1 -> 224 [] k = 2 -> 214 [] k = 3 -> 204 [] k = 4 -> 196
      [] k = 5 -> 188 [] k = 6 -> 182 [] k = 7 -> 176 [] k = 8 -> 170

\* c_k = 1.0 / ((k + 1) ** gamma), gamma = 0.101, in units of 1/Scale
c_coeff(k) ==
    CASE k = 1 -> 932 [] k = 2 -> 895 [] k = 3 -> 869 [] k = 4 -> 850
      [] k = 5 -> 834 [] k = 6 -> 822 [] k = 7 -> 811 [] k = 8 -> 801

\* _generate_perturbation: one of +1, -1 per parameter
SignVectors(n) == [1..n -> {-1, 1}]

\* perturbation = c_k * param.c_end * delta[i]
Perturbation(param, k, d) == FxMul(c_coeff(k), param.c_end) * d

PlusCandidate(param, k, d) == clamp(param, param.value + Perturbation(param, k, d))

MinusCandidate(param, k, d) == clamp(param, param.value - Perturbation(param, k, d))

-----------------------------------------------------------------------------
(* Match-based estimator: _run_games *)

\* A whitespace-separated token of a line: an integer literal or another word
Tok(n) == [isInt |-> TRUE, v |-> n]

Word == [isInt |-> FALSE, v |-> 0]

\* A line of the runner's stdout: whether it contains 'Score of Plus vs Minus',
\* whether it contains ':', and the tokens of line.split(':')[1]
ScoreLine(w, l, d) ==
    [marker |-> TRUE, colon |-> TRUE,
     parts |-> << Tok(w), Word, Tok(l), Word, Tok(d), Word >>]

OtherLine == [marker |-> FALSE, colon |-> FALSE, parts |-> << >>]

NoColonLine == [marker |-> TRUE, colon |-> FALSE, parts |-> << >>]

NonIntLine ==
    [marker |-> TRUE, colon |-> TRUE,
     parts |-> << Tok(1), Word, Word, Word, Tok(0), Word >>]

ShortLine == [marker |-> TRUE, colon |-> TRUE, parts |-> << Tok(1), Word, Tok(0) >>]

\* The games_per_iter argument of the constructor
games_per_iter_arg == 1

\* self.games_per_iter = games_per_iter if games_per_iter % 2 == 0 else games_per_iter + 1
EvenGames(n) == IF n % 2 = 0 THEN n ELSE n + 1

games_per_iter == EvenGames(games_per_iter_arg)

\* half_games = self.games_per_iter // 2, passed as "-games" and as "-rounds"
BuildCommand(n) == [games |-> n \div 2, rounds |-> n \div 2]

NoCommand == [games |-> 0, rounds |-> 0]

\* The match runner plays "-games" games in each of its "-rounds" rounds
ImpliedTotal(c) == c.rounds * c.games

GameResults == {"win", "loss", "draw"}

CountOf(rs, n, r) == Cardinality({j \in 1..n : rs[j] = r})

\* The tally the runner prints after game n of the games rs
TallyLine(rs, n) ==
    ScoreLine(CountOf(rs, n, "win"), CountOf(rs, n, "loss"), CountOf(rs, n, "draw"))

\* stdout with a running tally after every game
RunningTally(rs) == [n \in 1..Len(rs) |-> TallyLine(rs, n)]

\* stdout with the final tally only
FinalTally(rs) == << OtherLine, TallyLine(rs, Len(rs)), OtherLine >>

NoMeasurement == [kind |-> "none", lines |-> << >>, evals |-> << >>]

RunnerResult(kind, lines) == [kind |-> kind, lines |-> lines, evals |-> << >>]

\* What subprocess.run(cmd, ..., timeout=3600) can do: raise TimeoutExpired, raise
\* OSError (the runner cannot be started), or return the runner's stdout
RunnerUnavailable == RunnerResult("oserror", << >>)

RunnerResults ==
    { RunnerResult("timeout", << >>), RunnerUnavailable }
    \cup { RunnerResult("output", ls) :
             ls \in { << >>, << OtherLine >>, << OtherLine, NoColonLine >>,
                      << NonIntLine >>, << ShortLine, ScoreLine(1, 0, 0) >>,
                      << ScoreLine(0, 0, 0) >> } }
    \cup { RunnerResult("output", RunningTally(rs)) :
             rs \in [1..games_per_iter -> GameResults] }
    \cup { RunnerResult("output", FinalTally(rs)) :
             rs \in [1..games_per_iter -> GameResults] }

RECURSIVE FirstMarker(_, _)
\* for line in output.split('\n'): if 'Score of Plus vs Minus' in line: ... break
FirstMarker(lines, i) ==
    IF i > Len(lines) THEN 0
    ELSE IF lines[i].marker THEN i
    ELSE FirstMarker(lines, i + 1)

\* int(parts[n]) raises IndexError or ValueError
IntFails(parts, n) == Len(parts) < n \/ ~parts[n].isInt

\* The parse loop of _run_games: the counts, or an exception
ParseCounts(lines) ==
    LET i == FirstMarker(lines, 1)
    IN  IF i = 0
        THEN [raised |-> FALSE, wins_plus |-> 0, wins_minus |-> 0, draws |-> 0]
        ELSE IF \/ ~lines[i].colon
                \/ IntFails(lines[i].parts, 1)
                \/ IntFails(lines[i].parts, 3)
                \/ IntFails(lines[i].parts, 5)
        THEN [raised |-> TRUE, wins_plus |-> 0, wins_minus |-> 0, draws |-> 0]
        ELSE [raised |-> FALSE,
              wins_plus |-> lines[i].parts[1].v,
              wins_minus |-> lines[i].parts[3].v,
              draws |-> lines[i].parts[5].v]

NeutralScores == [score_plus |-> Half, score_minus |-> Half]

\* A variant of MatchScores that counts a draw as a full point for Minus
MatchScoresDrawToMinus(w, l, d) ==
    [score_plus |-> RoundDiv(w * Scale + d * Half, w + l + d),
     score_minus |-> RoundDiv(l * Scale + d * Scale, w + l + d)]

\* score_plus = (wins_plus + draws * 0.5) / total, and the same for Minus
MatchScores(w, l, d) ==
    [score_plus |-> RoundDiv(w * Scale + d * Half, w + l + d),
     score_minus |-> RoundDiv(l * Scale + d * Half, w + l + d)]

\* A variant of _run_games that lets the parse error escape
RunGamesUncaught(r) ==
    LET c == ParseCounts(r.lines)
    IN  IF r.kind # "output"
        THEN [raised |-> FALSE, counts |-> ParseCounts(<< >>), scores |-> NeutralScores]
        ELSE IF c.raised
        THEN [raised |-> TRUE, counts |-> c, scores |-> NeutralScores]
        ELSE IF c.wins_plus + c.wins_minus + c.draws = 0
        THEN [raised |-> FALSE, counts |-> c, scores |-> NeutralScores]
        ELSE [raised |-> FALSE, counts |-> c,
              scores |-> MatchScores(c.wins_plus, c.wins_minus, c.draws)]

\* _run_games: the try block with its two except clauses
RunGames(r) ==
    LET c == ParseCounts(r.lines)
    IN  IF r.kind # "output" \/ c.raised
        THEN [raised |-> FALSE, counts |-> ParseCounts(<< >>), scores |-> NeutralScores]
        ELSE IF c.wins_plus + c.wins_minus + c.draws = 0
        THEN [raised |-> FALSE, counts |-> c, scores |-> NeutralScores]
        ELSE [raised |-> FALSE, counts |-> c,
              scores |-> MatchScores(c.wins_plus, c.wins_minus, c.draws)]

-----------------------------------------------------------------------------
(* Evaluation-based estimator: _run_games_simple *)

\* A line of the engine's stdout: 'score cp <tok>', 'score mate <tok>' or other
CpLine(n) == [tag |-> "cp", tok |-> Tok(n)]

MateLine(n) == [tag |-> "mate", tok |-> Tok(n)]

InfoLine == [tag |-> "other", tok |-> Word]

EngineRun(kind, lines) == [kind |-> kind, lines |-> lines]

\* What one engine query can do: time out, or print its search output.  Scores
\* are multiples of 100 centipawns; the last one is a mate reported in centipawns.
EngineRuns ==
    { EngineRun("timeout", << >>),
      EngineRun("output", << InfoLine >>),
      EngineRun("output", << CpLine(0), CpLine(100), InfoLine >>),
      EngineRun("output", << CpLine(100), MateLine(3), InfoLine >>),
      EngineRun("output", << MateLine(-2), InfoLine >>),
      EngineRun("output", << CpLine(31000), InfoLine >>) }

MateScore == 10000

RECURSIVE ScanEval(_, _)
\* for line in reversed(proc.stdout.split('\n')): the last score line decides
ScanEval(lines, i) ==
    IF i = 0 THEN 0
    ELSE IF lines[i].tag = "cp"
    THEN (IF lines[i].tok.isInt THEN lines[i].tok.v ELSE 0)
    ELSE IF lines[i].tag = "mate"
    THEN (IF ~lines[i].tok.isInt THEN 0
          ELSE IF lines[i].tok.v > 0 THEN MateScore ELSE -MateScore)
    ELSE ScanEval(lines, i - 1)

\* get_eval: the bare except turns a timeout or a parse error into 0
get_eval(q) == IF q.kind = "timeout" THEN 0 ELSE ScanEval(q.lines, Len(q.lines))

\* self.positions_per_iter and len(self.test_positions) (the built-in fallback set)
positions_per_iter == 1

test_positions == 5

sample_size == Min(positions_per_iter, test_positions)

\* The engine's behaviour on the sampled positions: a plus and a minus query each
EngineMeasurements ==
    { [kind |-> "evals", lines |-> << >>, evals |-> e] :
        e \in [1..sample_size -> [plus : EngineRuns, minus : EngineRuns]] }

RECURSIVE TotalDiff(_, _)
\* total_diff += eval_plus - eval_minus over the sampled positions
TotalDiff(evals, n) ==
    IF n = 0 THEN 0
    ELSE TotalDiff(evals, n - 1) + (get_eval(evals[n].plus) - get_eval(evals[n].minus))

\* avg_diff = total_diff / max(1, positions_tested), in units of 1/Scale
AvgDiff(evals) == RoundDiv(TotalDiff(evals, Len(evals)) * Scale, Max(1, Len(evals)))

\* The exponent -avg_diff / 100 of line 347, in units of 1/Scale
Exponent(avg_diff) == RoundDiv(-avg_diff, 100)

\* 10 ** x raises OverflowError above the largest double, 10 ** 308.2547...
MaxExponent == 308254

\* 1 / (1 + 10 ** x) for a whole exponent x = e * Scale; beyond |e| = 6 the
\* result is within half a unit of 0 or 1
Logistic(x) ==
    CASE x % Scale = 0 /\ x >= 6 * Scale -> 0
      [] x % Scale = 0 /\ x <= -6 * Scale -> Scale
      [] x % Scale = 0 /\ x >= 0 /\ x < 6 * Scale ->
            RoundDiv(Scale, 1 + 10^(x \div Scale))
      [] x % Scale = 0 /\ x < 0 /\ x > -6 * Scale ->
            RoundDiv(Scale * 10^((-x) \div Scale), 10^((-x) \div Scale) + 1)

\* _run_games_simple: the scores, or the OverflowError of 10 ** x
RunGamesSimple(m) ==
    LET x == Exponent(AvgDiff(m.evals))
    IN  IF x > MaxExponent
        THEN [raised |-> TRUE, scores |-> NeutralScores]
        ELSE [raised |-> FALSE,
              scores |-> [score_plus |-> Logistic(x), score_minus |-> Scale - Logistic(x)]]

-----------------------------------------------------------------------------
(* Gradient step of iterate() *)

\* A variant of GradientWith that divides by the magnitude and drops the sign
GradientWithoutSign(c_k, c_end, d, sp, sm) ==
    FxDiv(sp - sm, FxMul(FxMul(2 * Scale, c_k), c_end))

\* gradient = (score_plus - score_minus) / (2 * c_k * param.c_end * delta[i])
GradientWith(c_k, c_end, d, sp, sm) ==
    FxDiv(sp - sm, FxMul(FxMul(2 * Scale, c_k), c_end) * d)

\* step = a_k * param.a_end * gradient
StepWith(a_k, c_k, param, d, sp, sm) ==
    FxMul(FxMul(a_k, param.a_end), GradientWith(c_k, param.c_end, d, sp, sm))

\* The gradient and the step of iteration k, with a_k, c_k of _get_spsa_coefficients
Gradient(param, k, d, sp, sm) == GradientWith(c_coeff(k), param.c_end, d, sp, sm)

Step(param, k, d, sp, sm) == StepWith(a_coeff(k), c_coeff(k), param, d, sp, sm)

\* A variant of UpdatedValue that writes the step without clamping
UpdatedValueUnclamped(param, k, d, sp, sm) == param.value + Step(param, k, d, sp, sm)

\* A variant of UpdatedValue that steps by score_plus instead of the difference
UpdatedValueNoDifference(param, k, d, sp, sm) ==
    clamp(param, param.value + Step(param, k, d, sp, 0))

\* param.value = param.clamp(param.value + step), skipped when delta[i] is 0
UpdatedValue(param, k, d, sp, sm) ==
    IF d # 0 THEN clamp(param, param.value + Step(param, k, d, sp, sm))
    ELSE param.value

\* A variant of IsBetter that lets a tie replace the best score
IsBetterOrEqual(score, best) == score >= best

\* if combined_score > self.best_score
IsBetter(score, best) == score > best

\* A variant of BestSnapshot that keeps the plus candidate that was scored
BestSnapshotOfPlus(current, plus) == plus

\* self.best_params = dict(self.current_params)
BestSnapshot(current, plus) == current

\* A variant of Append that puts the newest record first
Prepend(h, r) == << r >> \o h

\* self.history.append(result)
HistoryAppend(h, r) == Append(h, r)

-----------------------------------------------------------------------------
(* save_results *)

\* A variant of IntTrunc that rounds down
IntFloor(v) == v \div Scale

\* int(v): truncation toward zero of a value in units of 1/Scale
IntTrunc(v) == IF v >= 0 THEN v \div Scale ELSE -((-v) \div Scale)

\* round(x, digits) of a value in units of 1/Scale
RoundTo(x, digits) ==
    IF 10^digits >= Scale THEN x
    ELSE RoundDiv(x, Scale \div 10^digits) * (Scale \div 10^digits)

\* {k: int(v) for k, v in d.items()}: names in the order of the parameter list
IntDict(ps, values) ==
    [i \in 1..Len(ps) |-> [name |-> ps[i].name, value |-> IntTrunc(values[i])]]

\* int(p.min_val + (p.max_val - p.min_val) / 2)
RangeMidpoint(p) == IntTrunc(p.min_val + FxDiv(p.max_val - p.min_val, 2 * Scale))

NoArtifact ==
    [summary |-> [total_iterations |-> 0, best_score |-> 0, best_iteration |-> 0],
     final_params |-> << >>, best_params |-> << >>, initial_params |-> << >>,
     history |-> << >>]

\* The dictionary save_results() dumps as JSON
SaveOutput(ps, n, current, best, score, besti, h) ==
    [summary |-> [total_iterations |-> n,
                  best_score |-> RoundTo(score, 4),
                  best_iteration |-> besti],
     final_params |-> IntDict(ps, current),
     best_params |-> IntDict(ps, best),
     initial_params |->
        [i \in 1..Len(DEFAULT_PARAMS) |->
            [name |-> DEFAULT_PARAMS[i].name, value |-> RangeMidpoint(DEFAULT_PARAMS[i])]],
     history |-> h]

-----------------------------------------------------------------------------
(* The random module, and two runs from one seed *)

\* The generator of the random module as a linear congruential generator with
\* 2^4 states: every draw returns a value and the generator's next state
NextRng(x) == (5 * x + 3) % 2^4

\* random.seed(s): the state depends on s alone
SeedRng(s) == s % 2^4

\* _randbelow(n): one draw, scaled to 0..n-1
RandBelow(x, n) == [value |-> (x * n) \div 2^4, rng |-> NextRng(x)]

RECURSIVE generate_perturbation(_, _)
\* [2 * random.randint(0, 1) - 1 for _ in self.params]: one draw per parameter
generate_perturbation(x, n) ==
    IF n = 0 THEN [delta |-> << >>, rng |-> x]
    ELSE LET rest == generate_perturbation(x, n - 1)
             draw == RandBelow(rest.rng, 2)
         IN  [delta |-> Append(rest.delta, 2 * draw.value - 1), rng |-> draw.rng]

RECURSIVE SampleFrom(_, _, _)
\* random.sample(pool, k): k draws without replacement; the drawn slot is
\* refilled with the last element of the shrinking pool
SampleFrom(pool, k, x) ==
    IF k = 0 THEN [sample |-> << >>, rng |-> x]
    ELSE LET draw == RandBelow(x, Len(pool))
             j == draw.value + 1
             shrunk == [i \in 1..(Len(pool) - 1) |->
                          IF i = j THEN pool[Len(pool)] ELSE pool[i]]
             rest == SampleFrom(shrunk, k - 1, draw.rng)
         IN  [sample |-> << pool[j] >> \o rest.sample, rng |-> rest.rng]

\* TEST_POSITIONS = random.sample(self.test_positions, sample_size)
SamplePositions(x) == SampleFrom([i \in 1..test_positions |-> i], sample_size, x)

\* A deterministic engine: the evaluation depends on the position and on the
\* first parameter it was configured with
MockEngine(position, values) ==
    EngineRun("output", << CpLine(100 * ((position + values[1] \div Scale) % 3)) >>)

\* A deterministic match runner: the side with the larger first parameter wins
\* one game and the other game is drawn
MockRunner(plus, minus) ==
    RunnerResult("output",
        FinalTally(IF plus[1] > minus[1] THEN << "win", "draw" >>
                   ELSE IF plus[1] < minus[1] THEN << "loss", "draw" >>
                   ELSE << "draw", "draw" >>))

\* The estimator of one iteration on a deterministic engine or runner: the
\* scores and the generator after the draws of the estimator
MockEstimate(simple, x, plus, minus) ==
    IF simple
    THEN LET drawn == SamplePositions(x)
             evals == [j \in 1..Len(drawn.sample) |->
                         [plus |-> MockEngine(drawn.sample[j], plus),
                          minus |-> MockEngine(drawn.sample[j], minus)]]
         IN  [scores |-> RunGamesSimple([evals |-> evals]).scores, rng |-> drawn.rng]
    ELSE [scores |-> RunGames(MockRunner(plus, minus)).scores, rng |-> x]

\* SPSATuner.__init__ as a record: the fields of a session, and the sign
\* vectors it has drawn
NewSession(ps) ==
    [params |-> ps, iteration |-> 0, current_params |-> ValuesOf(ps),
     best_params |-> ValuesOf(ps), best_score |-> Half, best_iteration |-> 0,
     history |-> << >>, deltas |-> << >>]

\* iterate() on a session record with the generator x: the session after the
\* iteration and the generator after its draws
IterateSession(t, simple, x) ==
    LET k == t.iteration + 1
        n == Len(t.params)
        drawn == generate_perturbation(x, n)
        d == drawn.delta
        plus == [i \in 1..n |-> PlusCandidate(t.params[i], k, d[i])]
        minus == [i \in 1..n |-> MinusCandidate(t.params[i], k, d[i])]
        est == MockEstimate(simple, drawn.rng, plus, minus)
        sp == est.scores.score_plus
        sm == est.scores.score_minus
        new == [i \in 1..n |->
                  [t.params[i] EXCEPT !.value = UpdatedValue(t.params[i], k, d[i], sp, sm)]]
        better == IsBetter(sp, t.best_score)
        best == IF better THEN sp ELSE t.best_score
        besti == IF better THEN k ELSE t.best_iteration
    IN  [session |->
            [params |-> new, iteration |-> k, current_params |-> ValuesOf(new),
             best_params |-> IF better THEN BestSnapshot(ValuesOf(new), plus)
                                       ELSE t.best_params,
             best_score |-> best, best_iteration |-> besti,
             history |-> HistoryAppend(t.history,
                            [iteration |-> k, score_plus |-> sp, score_minus |-> sm,
                             best_score |-> best, best_iteration |-> besti,
                             params |-> ValuesOf(new)]),
             deltas |-> Append(t.deltas, d)],
         rng |-> est.rng]

\* A variant of CopyParams that hands the caller's TunableParam objects to the
\* session, so that the session's updates are the caller's values
CopyParamsAliased(ps, updated) == updated

\* main(): params=[TunableParam(p.name, p.value, p.min_val, p.max_val) for p in
\* DEFAULT_PARAMS]: the session updates its own copies and the list the copies
\* were made from keeps its values
CopyParams(ps, updated) == ps

Seeds == 0..3

NoTwin == [phase |-> "off", run |-> 0, seed |-> 0, rng |-> 0, source |-> << >>,
           sessions |-> << >>]

-----------------------------------------------------------------------------
(* The session *)

\* The process starts: SPSATuner.__init__ and the arguments of run(), as main()
\* sets them once the engine path has been checked
InitSession ==
    /\ params \in ParamLists
    /\ iterations \in 0..MaxIterations
    /\ use_simple_games \in BOOLEAN
    /\ iteration = 0
    /\ current_params = ValuesOf(params)
    /\ best_params = ValuesOf(params)
    /\ best_score = Half
    /\ best_iteration = 0
    /\ history = << >>
    /\ pc = "main"
    /\ engine_exists \in BOOLEAN
    /\ cutechess_exists \in (IF use_simple_games THEN {TRUE} ELSE BOOLEAN)
    /\ cmd = NoCommand
    /\ artifact = NoArtifact
    /\ delta = << >>
    /\ params_plus = << >>
    /\ params_minus = << >>
    /\ measured = NoMeasurement
    /\ wins_plus = 0
    /\ wins_minus = 0
    /\ draws = 0
    /\ score_plus = Half
    /\ score_minus = Half

Init == InitSession /\ twin = NoTwin

\* A variant of Perturb's parameter write that perturbs the parameters in place
ParamsPerturbedInPlace(ps, k, d) ==
    [i \in 1..Len(ps) |-> [ps[i] EXCEPT !.value = PlusCandidate(ps[i], k, d[i])]]

\* The parameters while the candidates are built: iterate() does not write them
ParamsWhilePerturbing(ps, k, d) == ps

\* main(): the engine path is checked before the tuner is created and run;
\* sys.exit(1) when the file does not exist
Main ==
    /\ pc = "main"
    /\ pc' = IF engine_exists THEN "idle" ELSE "exit"
    /\ UNCHANGED << config, artifact, twin, cmd, params, iteration,
                    current_params, best_params, best_score, best_iteration,
                    history, delta, params_plus, params_minus, measured,
                    wins_plus, wins_minus, draws, score_plus, score_minus >>

\* run(): the next pass of the loop enters iterate(), which counts the
\* iteration, draws the sign vector and builds the two candidates
Perturb ==
    /\ pc = "idle"
    /\ iteration < iterations
    /\ \E d \in SignVectors(Len(params)) :
         /\ delta' = d
         /\ params_plus' =
              [i \in 1..Len(params) |-> PlusCandidate(params[i], iteration + 1, d[i])]
         /\ params_minus' =
              [i \in 1..Len(params) |-> MinusCandidate(params[i], iteration + 1, d[i])]
         /\ params' = ParamsWhilePerturbing(params, iteration + 1, d)
    /\ iteration' = iteration + 1
    /\ pc' = "scoring"
    /\ UNCHANGED << config, artifact, twin, cmd, current_params, best_params,
                    best_score, best_iteration, history, measured, wins_plus,
                    wins_minus, draws, score_plus, score_minus >>

\* iterate(): score_plus, score_minus = self._run_games(params_plus, params_minus)
ScoreMatch ==
    /\ pc = "scoring"
    /\ ~use_simple_games
    /\ cmd' = BuildCommand(games_per_iter)
    /\ \E r \in (IF cutechess_exists THEN RunnerResults ELSE {RunnerUnavailable}) :
         LET out == RunGames(r)
         IN  /\ measured' = r
             /\ wins_plus' = out.counts.wins_plus
             /\ wins_minus' = out.counts.wins_minus
             /\ draws' = out.counts.draws
             /\ score_plus' = out.scores.score_plus
             /\ score_minus' = out.scores.score_minus
             /\ pc' = IF out.raised THEN "raised" ELSE "update"
    /\ UNCHANGED << config, artifact, twin, params, iteration, current_params,
                    best_params, best_score, best_iteration, history, delta,
                    params_plus, params_minus >>

\* iterate(): score_plus, score_minus = self._run_games_simple(params_plus, params_minus)
ScoreSimple ==
    /\ pc = "scoring"
    /\ use_simple_games
    /\ \E m \in EngineMeasurements :
         LET out == RunGamesSimple(m)
         IN  /\ measured' = m
             /\ score_plus' = out.scores.score_plus
             /\ score_minus' = out.scores.score_minus
             /\ pc' = IF out.raised THEN "raised" ELSE "update"
    /\ UNCHANGED << config, artifact, twin, cmd, params, iteration,
                    current_params, best_params, best_score, best_iteration,
                    history, delta, params_plus, params_minus, wins_plus,
                    wins_minus, draws >>

\* iterate(), lines 386-414: the gradient step on every parameter, the refresh
\* of current_params, best tracking and the history record; iterate() returns
Update ==
    /\ pc = "update"
    /\ LET k == iteration
           new == [i \in 1..Len(params) |->
                     [params[i] EXCEPT !.value =
                        UpdatedValue(params[i], k, delta[i], score_plus, score_minus)]]
           better == IsBetter(score_plus, best_score)
           best == IF better THEN score_plus ELSE best_score
           besti == IF better THEN k ELSE best_iteration
       IN  /\ params' = new
           /\ current_params' = ValuesOf(new)
           /\ best_score' = best
           /\ best_params' = IF better THEN BestSnapshot(ValuesOf(new), params_plus)
                                      ELSE best_params
           /\ best_iteration' = besti
           /\ history' = HistoryAppend(history,
                            [iteration |-> k,
                             score_plus |-> score_plus,
                             score_minus |-> score_minus,
                             best_score |-> best,
                             best_iteration |-> besti,
                             params |-> ValuesOf(new)])
    /\ pc' = "idle"
    /\ delta' = << >>
    /\ params_plus' = << >>
    /\ params_minus' = << >>
    /\ measured' = NoMeasurement
    /\ wins_plus' = 0
    /\ wins_minus' = 0
    /\ draws' = 0
    /\ score_plus' = Half
    /\ score_minus' = Half
    /\ cmd' = NoCommand
    /\ UNCHANGED << config, artifact, twin, iteration >>

\* run(): the loop is exhausted and run() returns self.current_params
Return ==
    /\ pc = "idle"
    /\ iteration >= iterations
    /\ pc' = "done"
    /\ UNCHANGED << config, artifact, twin, cmd, params, iteration,
                    current_params, best_params, best_score, best_iteration,
                    history, delta, params_plus, params_minus, measured,
                    wins_plus, wins_minus, draws, score_plus, score_minus >>

\* SIGINT while the estimator waits for the external process: KeyboardInterrupt
\* is no Exception, so it leaves _run_games, iterate() and run()
Interrupt ==
    /\ pc = "scoring"
    /\ pc' = "raised"
    /\ UNCHANGED << config, artifact, twin, cmd, params, iteration,
                    current_params, best_params, best_score, best_iteration,
                    history, delta, params_plus, params_minus, measured,
                    wins_plus, wins_minus, draws, score_plus, score_minus >>

\* main(): tuner.save_results(args.output) once run() has returned
SaveResults ==
    /\ pc = "done"
    /\ artifact' = SaveOutput(params, iteration, current_params, best_params,
                              best_score, best_iteration, history)
    /\ pc' = "saved"
    /\ UNCHANGED << config, twin, cmd, params, iteration, current_params,
                    best_params, best_score, best_iteration, history, delta,
                    params_plus, params_minus, measured, wins_plus, wins_minus,
                    draws, score_plus, score_minus >>

Next == Main \/ Perturb \/ ScoreMatch \/ ScoreSimple \/ Update \/ Return \/ SaveResults

Spec == Init /\ [][Next]_vars

NextInterruptible == Next \/ Interrupt

SpecInterruptible == Init /\ [][NextInterruptible]_vars

-----------------------------------------------------------------------------
(* Two runs of main() one after the other, each after random.seed(seed), on a
   deterministic engine and match runner *)

InitTwin ==
    /\ InitSession
    /\ engine_exists
    /\ cutechess_exists
    /\ \E s \in Seeds :
         twin = [phase |-> "start", run |-> 1, seed |-> s, rng |-> 0,
                 source |-> params,
                 sessions |-> << NewSession(params), NewSession(params) >>]

session_vars ==
    << config, artifact, cmd, params, iteration, current_params, best_params,
       best_score, best_iteration, history, pc, delta, params_plus, params_minus,
       measured, wins_plus, wins_minus, draws, score_plus, score_minus >>

\* random.seed(seed), then the tuner of this run is created from the source list
TwinStart ==
    /\ twin.phase = "start"
    /\ twin' = [twin EXCEPT !.phase = "run",
                            !.rng = SeedRng(twin.seed),
                            !.sessions[twin.run] = NewSession(twin.source)]
    /\ UNCHANGED session_vars

\* One iteration of the run in progress
TwinIterate ==
    /\ twin.phase = "run"
    /\ twin.sessions[twin.run].iteration < iterations
    /\ LET out == IterateSession(twin.sessions[twin.run], use_simple_games, twin.rng)
       IN  twin' = [twin EXCEPT !.sessions[twin.run] = out.session,
                                !.rng = out.rng,
                                !.source = CopyParams(twin.source, out.session.params)]
    /\ UNCHANGED session_vars

\* run() returns; the second run follows the first
TwinReturn ==
    /\ twin.phase = "run"
    /\ twin.sessions[twin.run].iteration >= iterations
    /\ twin' = IF twin.run = 1
               THEN [twin EXCEPT !.phase = "start", !.run = 2]
               ELSE [twin EXCEPT !.phase = "finished"]
    /\ UNCHANGED session_vars

NextTwin == TwinStart \/ TwinIterate \/ TwinReturn

SpecTwin == InitTwin /\ [][NextTwin]_vars

-----------------------------------------------------------------------------
(* Properties *)

IsNeutral(sp, sm) == sp = Half /\ sm = Half

\* C1: every parameter's value lies within [min_val, max_val] in every state of
\* a session, from construction on and after any number of iterations.
C1_ValueWithinBounds ==
    \A i \in 1..Len(params) :
        /\ params[i].min_val <= params[i].value
        /\ params[i].value <= params[i].max_val

\* C1 witness: a second update is due whose unclamped result leaves the range.
C1_Witness ==
    /\ pc = "update"
    /\ iteration >= 2
    /\ \E i \in 1..Len(params) :
         LET v == params[i].value
                    + Step(params[i], iteration, delta[i], score_plus, score_minus)
         IN  v < params[i].min_val \/ v > params[i].max_val

\* C2: an iteration whose estimator returned the neutral pair (0.5, 0.5) leaves
\* every parameter's value as it was, for any sign vector and iteration index.
C2_NeutralLeavesParams ==
    [][(pc = "update" /\ IsNeutral(score_plus, score_minus))
          => ValuesOf(params') = ValuesOf(params)]_vars

\* C2 witness: a neutral second iteration has completed after a first one that
\* was not neutral, and the two snapshots agree.
C2_Witness ==
    /\ pc = "idle"
    /\ Len(history) = 2
    /\ ~IsNeutral(history[1].score_plus, history[1].score_minus)
    /\ IsNeutral(history[2].score_plus, history[2].score_minus)
    /\ history[2].params = history[1].params

PlusScores == {Half} \cup {history[k].score_plus : k \in 1..Len(history)}

MaxPlusScore == CHOOSE m \in PlusScores : \A s \in PlusScores : s <= m

FirstIndexOf(m) ==
    CHOOSE k \in 1..Len(history) :
        /\ history[k].score_plus = m
        /\ \A j \in 1..(k - 1) : history[j].score_plus # m

\* C3: best_score is the maximum of 0.5 and the plus-scores so far, and
\* best_iteration is the first iteration that reached it (0 when none exceeds
\* 0.5): only a strictly greater plus-score replaces the best, a tie never does.
C3_BestIsFirstMaximum ==
    /\ best_score = MaxPlusScore
    /\ best_iteration = IF MaxPlusScore = Half THEN 0 ELSE FirstIndexOf(MaxPlusScore)

\* C3 witness: three iterations with a rising score and then a tie at the maximum.
C3_Witness ==
    /\ Len(history) = 3
    /\ history[1].score_plus > Half
    /\ history[2].score_plus > history[1].score_plus
    /\ history[3].score_plus = history[2].score_plus
    /\ best_iteration = 2

\* C4: the history is append-only and in iteration order: a step appends at most
\* one record and changes none already there, the record at position k carries
\* iteration k, and between iterations there is one record per iteration.
C4_HistoryAppendOnly ==
    /\ [][/\ Len(history') \in {Len(history), Len(history) + 1}
          /\ \A k \in 1..Len(history) : history'[k] = history[k]]_vars
    /\ [](\A k \in 1..Len(history) : history[k].iteration = k)
    /\ [](pc \in {"idle", "done"} => Len(history) = iteration)

\* C4 witness: a third iteration is under way with two records appended whose
\* snapshots differ from the live parameter values.
C4_Witness ==
    /\ pc = "update"
    /\ Len(history) = 2
    /\ history[1].params # history[2].params

\* C5: run(n) stops only after n completed iterations: when run() has returned
\* or raised, the iteration counter and the history length are both n.
C5_RunCompletesAllIterations ==
    pc \in {"done", "raised"} => (iteration = iterations /\ Len(history) = iterations)

\* A parseable 'Score of Plus vs Minus' result line
Parseable(line) ==
    /\ line.marker
    /\ line.colon
    /\ Len(line.parts) >= 5
    /\ line.parts[1].isInt /\ line.parts[3].isInt /\ line.parts[5].isInt

MatchFailed ==
    \/ measured.kind \in {"timeout", "oserror"}
    \/ /\ measured.kind = "output"
       /\ \A n \in 1..Len(measured.lines) : ~Parseable(measured.lines[n])

\* C6: in the match-based strategy a timeout, a runner that cannot be run, or
\* output without a parseable result line gives exactly (0.5, 0.5), and no error
\* of the estimator reaches the iteration loop.
C6_MatchFailureIsNeutral ==
    /\ (pc = "update" /\ ~use_simple_games /\ MatchFailed)
          => IsNeutral(score_plus, score_minus)
    /\ ~use_simple_games => pc # "raised"

\* C6 witness: the runner printed a malformed result line and the iteration goes on.
C6_Witness ==
    /\ pc = "update"
    /\ ~use_simple_games
    /\ measured.kind = "output"
    /\ \E n \in 1..Len(measured.lines) : measured.lines[n].marker
    /\ MatchFailed

SomeQueryTimedOut ==
    \E n \in 1..Len(measured.evals) :
        \/ measured.evals[n].plus.kind = "timeout"
        \/ measured.evals[n].minus.kind = "timeout"

\* C7: in the evaluation-based strategy an iteration in which an engine query
\* timed out (some or all of them) has the neutral pair (0.5, 0.5) as its result.
C7_TimeoutIsNeutral ==
    (pc = "update" /\ use_simple_games /\ SomeQueryTimedOut)
        => IsNeutral(score_plus, score_minus)

\* C8: in the match-based strategy, for parsed counts with a positive total,
\* score_plus = (wins_plus + draws/2) / total and score_minus = (wins_minus +
\* draws/2) / total (to the rounding of the fixed-point grid), both lie in
\* [0, 1] and they sum to 1; the neutral pair of a failure sums to 1 as well.
C8_MatchScoreFormula ==
    (pc = "update" /\ ~use_simple_games) =>
        LET total == wins_plus + wins_minus + draws
        IN  /\ score_plus + score_minus = Scale
            /\ 0 <= score_plus /\ score_plus <= Scale
            /\ 0 <= score_minus /\ score_minus <= Scale
            /\ total = 0 => IsNeutral(score_plus, score_minus)
            /\ total > 0 =>
                 /\ Abs(2 * total * score_plus - (2 * wins_plus + draws) * Scale) <= total
                 /\ Abs(2 * total * score_minus - (2 * wins_minus + draws) * Scale) <= total

\* C8 witness: a win and a draw were parsed, giving (0.75, 0.25).
C8_Witness ==
    /\ pc = "update"
    /\ ~use_simple_games
    /\ wins_plus = 1 /\ wins_minus = 0 /\ draws = 1
    /\ score_plus = 3 * (Scale \div 4)

\* C9: both candidates handed to the estimator lie within every parameter's
\* bounds, also when value +/- offset falls outside them.
C9_CandidatesWithinBounds ==
    pc \in {"scoring", "update", "raised"} =>
        /\ Len(params_plus) = Len(params)
        /\ Len(params_minus) = Len(params)
        /\ \A i \in 1..Len(params) :
             /\ params[i].min_val <= params_plus[i]
             /\ params_plus[i] <= params[i].max_val
             /\ params[i].min_val <= params_minus[i]
             /\ params_minus[i] <= params[i].max_val

\* C9 witness: the estimator runs on candidates of which one had to be clamped
\* at the lower and one at the upper bound.
C9_Witness ==
    /\ pc = "scoring"
    /\ \E i \in 1..Len(params) :
         params[i].value - Perturbation(params[i], iteration, delta[i])
            < params[i].min_val
    /\ \E i \in 1..Len(params) :
         params[i].value + Perturbation(params[i], iteration, delta[i])
            > params[i].max_val

\* C10: the parameters are written only by the update step: building the
\* candidates and scoring leave them as the previous iteration left them
\* (current_params), and an iteration aborted during scoring ends with exactly
\* those values.
C10_ParamsWrittenOnlyByUpdate ==
    /\ [][pc # "update" => params' = params]_vars
    /\ [](pc \in {"scoring", "update", "raised"} => ValuesOf(params) = current_params)

\* C10 witness: the second iteration was aborted during scoring, after the
\* first had moved the parameters.
C10_Witness ==
    /\ pc = "raised"
    /\ iteration = 2
    /\ Len(history) = 1
    /\ ValuesOf(params) = history[1].params
    /\ \E i \in 1..Len(params) : params_plus[i] # params[i].value

\* The parameter list the session was constructed with
InitialParams ==
    CHOOSE l \in ParamLists :
        /\ Len(l) = Len(params)
        /\ \A i \in 1..Len(l) : [l[i] EXCEPT !.value = 0] = [params[i] EXCEPT !.value = 0]

\* C11: best_params is the post-update snapshot of iteration best_iteration (the
\* record of that number in the history), or the initial values while
\* best_iteration is 0; an iteration that does not beat best_score leaves
\* best_params, best_score and best_iteration unchanged.
C11_BestParamsIsBestSnapshot ==
    /\ [](best_params = IF best_iteration = 0 THEN ValuesOf(InitialParams)
                        ELSE history[best_iteration].params)
    /\ [][(pc = "update" /\ ~(score_plus > best_score))
             => UNCHANGED << best_params, best_score, best_iteration >>]_vars

\* C11 witness: the first iteration is the best of three and the parameters have
\* moved on since.
C11_Witness ==
    /\ Len(history) = 3
    /\ best_iteration = 1
    /\ best_params = history[1].params
    /\ current_params # best_params
    /\ history[2].params # best_params

\* The parameter of the example: perturbationScale 2, stepScale 0.2
ExampleParam ==
    TunableParam("Example", 10 * Scale, 0, 20 * Scale, 2 * Scale, (2 * Scale) \div 10)

\* The step the update of parameter i is about to apply
DueStep(i) == Step(params[i], iteration, delta[i], score_plus, score_minus)

\* DueStep(i) is a_k * a_end * (score_plus - score_minus) / (2 * c_k * c_end * delta)
\* to within two units of the fixed-point grid
StepMatchesFormula(i) ==
    LET num == a_coeff(iteration) * params[i].a_end * (score_plus - score_minus)
        den == 2 * c_coeff(iteration) * params[i].c_end * delta[i]
    IN  Abs(DueStep(i) * den - num) <= 2 * Abs(den)

\* C12: the update adds step = a_k * stepScale * (scorePlus - scoreMinus) /
\* (2 * c_k * perturbationScale * delta) and clamps; for the example (0.7, 0.3,
\* perturbationScale 2, stepScale 0.2, delta +1, c_k = a_k = 1) the step is
\* 0.02; when scorePlus > scoreMinus a parameter not held by a bound moves in
\* the direction of delta, when scorePlus < scoreMinus against it.
C12_StepFormulaAndDirection ==
    /\ [](StepWith(Scale, Scale, ExampleParam, 1, (7 * Scale) \div 10, (3 * Scale) \div 10)
             = (2 * Scale) \div 100)
    /\ [][pc = "update" =>
            \A i \in 1..Len(params) :
               LET old == params[i].value
                   new == params'[i].value
                   dir == IF score_plus > score_minus THEN delta[i]
                          ELSE IF score_plus < score_minus THEN -delta[i]
                          ELSE 0
               IN  /\ StepMatchesFormula(i)
                   /\ new = Max(params[i].min_val, Min(params[i].max_val, old + DueStep(i)))
                   /\ dir = 1 => (new >= old /\ (new = old => old = params[i].max_val))
                   /\ dir = -1 => (new <= old /\ (new = old => old = params[i].min_val))]_vars

\* C12 witness: with scorePlus < scoreMinus and delta = -1 a parameter has just
\* moved up, toward its minus candidate, without touching a bound.
C12_Witness ==
    /\ pc = "idle"
    /\ Len(history) = 2
    /\ history[2].score_plus < history[2].score_minus
    /\ \E i \in 1..Len(params) :
         /\ history[2].params[i] > history[1].params[i]
         /\ params[i].value < params[i].max_val

C13_WitnessMatch ==
    /\ twin.phase = "finished"
    /\ ~use_simple_games
    /\ Len(twin.sessions[2].history) = 3
    /\ twin.sessions[2].deltas[1] # twin.sessions[2].deltas[2]
    /\ twin.sessions[2].history[1].params # twin.sessions[2].history[2].params

\* Whether a dictionary of the artifact has the key, and the value under it
HasKey(d, name) == \E i \in 1..Len(d) : d[i].name = name

Lookup(d, name) == d[CHOOSE i \in 1..Len(d) : d[i].name = name].value

\* C14 as stated: the saved artifact, read back, has the session's iteration
\* count, final_params identical to the values run() returned, and a history of
\* the same length.
C14_ReloadReproducesSession ==
    pc = "saved" =>
        /\ artifact.summary.total_iterations = iteration
        /\ Len(artifact.final_params) = Len(params)
        /\ \A i \in 1..Len(params) :
              /\ HasKey(artifact.final_params, params[i].name)
              /\ Lookup(artifact.final_params, params[i].name) * Scale = current_params[i]
        /\ Len(artifact.history) = Len(history)

\* C14 amended: the saved artifact has the session's iteration count and history,
\* and final_params holds every final value cut to an integer toward zero: less
\* than one away from the value run() returned and never larger in magnitude.
C14_ReloadReproducesTruncated ==
    pc = "saved" =>
        /\ artifact.summary.total_iterations = iteration
        /\ Len(artifact.final_params) = Len(params)
        /\ \A i \in 1..Len(params) :
              /\ HasKey(artifact.final_params, params[i].name)
              /\ LET v == Lookup(artifact.final_params, params[i].name) * Scale
                 IN  /\ Abs(current_params[i] - v) < Scale
                     /\ Abs(v) <= Abs(current_params[i])
        /\ artifact.history = history

\* C14 witness: a session saved after three iterations whose final value is
\* negative and not a whole number.
C14_Witness ==
    /\ pc = "saved"
    /\ iteration = 3
    /\ Len(artifact.history) = 3
    /\ \E i \in 1..Len(params) :
          /\ current_params[i] < 0
          /\ current_params[i] % Scale # 0
          /\ Lookup(artifact.final_params, params[i].name) * Scale # current_params[i]

\* C15: when an external process is unavailable (the engine executable is
\* missing, or the match runner a match-based session needs cannot be started),
\* the session runs no iteration, appends no history record and applies no update.
C15_UnavailableProcessIsFatal ==
    (~engine_exists \/ (~use_simple_games /\ ~cutechess_exists)) =>
        /\ iteration = 0
        /\ history = << >>
        /\ params = InitialParams

\* C16: in a match-based iteration the runner is asked for N games in total,
\* where N is the configured games-per-iteration made even by adding one to an
\* odd number, and the total implied by the game-count arguments equals N.
C16_RunnerPlaysNGames ==
    cmd # NoCommand =>
        /\ games_per_iter % 2 = 0
        /\ games_per_iter = (IF games_per_iter_arg % 2 = 0 THEN games_per_iter_arg
                                                           ELSE games_per_iter_arg + 1)
        /\ ImpliedTotal(cmd) = games_per_iter

\* C17: the artifact's initial_params holds, for every tuned parameter, the value
\* the parameter had when the session started, however many iterations ran.
C17_InitialParamsAreStartValues ==
    pc = "saved" =>
        \A i \in 1..Len(params) :
            /\ HasKey(artifact.initial_params, params[i].name)
            /\ Lookup(artifact.initial_params, params[i].name) * Scale
                   = InitialParams[i].value

\* The lines of the runner's output that carry the result marker
MarkerLines(lines) == {n \in 1..Len(lines) : lines[n].marker}

LastMarker(lines) ==
    CHOOSE n \in MarkerLines(lines) : \A m \in MarkerLines(lines) : m <= n

\* C18: when the runner's output has more than one result line (a running
\* tally), the counts behind the score pair are those of the last, cumulative
\* line, and they add up to the number of games played.
C18_CountsOfLastTally ==
    (/\ pc = "update"
     /\ ~use_simple_games
     /\ measured.kind = "output"
     /\ Cardinality(MarkerLines(measured.lines)) > 1
     /\ \A n \in MarkerLines(measured.lines) : Parseable(measured.lines[n])) =>
        LET last == measured.lines[LastMarker(measured.lines)].parts
        IN  /\ wins_plus = last[1].v
            /\ wins_minus = last[3].v
            /\ draws = last[5].v
            /\ wins_plus + wins_minus + draws = games_per_iter
            /\ score_plus = MatchScores(last[1].v, last[3].v, last[5].v).score_plus
            /\ score_minus = MatchScores(last[1].v, last[3].v, last[5].v).score_minus

=============================================================================
